---- MODULE Spec2Model ----
(***************************************************************************)
(* Byte-level BPE tokenizers of the repository:                            *)
(*   src/bpe_tokeniser.py  Tokenizer with GPT-2 style pre-tokenization     *)
(*   src/tokeniser.py      Tokenizer working on one flat token stream      *)
(* A text is a sequence of Unicode code points, a bytes object a sequence  *)
(* of integers 0..255, and a Python dict a sequence of <<key, value>>      *)
(* entries in insertion order (the order Python iterates it in).           *)
(***************************************************************************)
EXTENDS Integers, Sequences, FiniteSets, TLC

VARIABLES
    impl,         \* "bpe": src/bpe_tokeniser.py, "stream": src/tokeniser.py
    pc,           \* "idle", or "train" inside the loop of train
    merges,       \* self.merges: dict (int, int) -> int
    vocab,        \* self.vocab: int -> bytes
    text_chunks,  \* train's locals, empty outside train
    word_freqs,
    splits,
    tokens,
    num_merges,
    loop_i,       \* the loop iterations of train completed so far
    ret,          \* the last call made and what it returned or raised
    n_train       \* the calls of train made so far

vars == <<impl, pc, merges, vocab, text_chunks, word_freqs, splits, tokens,
          num_merges, loop_i, ret, n_train>>

(***************************************************************************)
(* Bounds of the model.                                                    *)
(***************************************************************************)
MaxCorpusLen == 4
MaxTextLen == 3
MaxMixedLen == 2
MaxMerges == 3
MaxIdsLen == 2
MaxTrainCalls == 2

(***************************************************************************)
(* Python dict, in insertion order.                                        *)
(***************************************************************************)
DictHas(d, k) == \E n \in 1..Len(d) : d[n][1] = k

DictIndex(d, k) == CHOOSE n \in 1..Len(d) : d[n][1] = k

DictGet(d, k, default) == IF DictHas(d, k) THEN d[DictIndex(d, k)][2] ELSE default

DictSet(d, k, v) ==
    IF DictHas(d, k) THEN [d EXCEPT ![DictIndex(d, k)] = <<k, v>>]
    ELSE Append(d, <<k, v>>)

RECURSIVE Concat(_)
Concat(ss) == IF ss = <<>> THEN <<>> ELSE Head(ss) \o Concat(Tail(ss))

(***************************************************************************)
(* str.encode("utf-8") and bytes.decode("utf-8", errors="replace").        *)
(***************************************************************************)
ReplacementChar == 65533

EncodeChar(c) ==
    IF c < 128 THEN <<c>>
    ELSE IF c < 2048 THEN <<192 + (c \div 64), 128 + (c % 64)>>
    ELSE IF c < 65536 THEN
        <<224 + (c \div 4096), 128 + ((c \div 64) % 64), 128 + (c % 64)>>
    ELSE <<240 + (c \div 262144), 128 + ((c \div 4096) % 64),
           128 + ((c \div 64) % 64), 128 + (c % 64)>>

utf8_encode(text) == Concat([n \in 1..Len(text) |-> EncodeChar(text[n])])

IsCont(b) == b >= 128 /\ b <= 191

\* The second byte a lead byte admits (no overlong forms, no surrogates,
\* nothing above U+10FFFF).
SecondOk(b0, b1) ==
    CASE b0 = 224 -> b1 >= 160 /\ b1 <= 191
      [] b0 = 237 -> b1 >= 128 /\ b1 <= 159
      [] b0 = 240 -> b1 >= 144 /\ b1 <= 191
      [] b0 = 244 -> b1 >= 128 /\ b1 <= 143
      [] OTHER -> IsCont(b1)

\* Bytes the sequence led by b0 needs (0: b0 leads nothing).
SeqLen(b0) ==
    IF b0 < 128 THEN 1
    ELSE IF b0 >= 194 /\ b0 <= 223 THEN 2
    ELSE IF b0 >= 224 /\ b0 <= 239 THEN 3
    ELSE IF b0 >= 240 /\ b0 <= 244 THEN 4
    ELSE 0

\* <<code point, bytes consumed>> for the bytes of bs from position p on: an
\* ill-formed or truncated sequence gives one U+FFFD for its longest
\* well-formed prefix.
DecodeAt(bs, p) ==
    LET b0 == bs[p]
        need == SeqLen(b0)
        has(k) == p + k <= Len(bs)
    IN  IF need = 1 THEN <<b0, 1>>
        ELSE IF need = 0 THEN <<ReplacementChar, 1>>
        ELSE IF ~(has(1) /\ SecondOk(b0, bs[p + 1])) THEN <<ReplacementChar, 1>>
        ELSE IF need = 2 THEN <<(b0 - 192) * 64 + (bs[p + 1] - 128), 2>>
        ELSE IF ~(has(2) /\ IsCont(bs[p + 2])) THEN <<ReplacementChar, 2>>
        ELSE IF need = 3 THEN
            <<(b0 - 224) * 4096 + (bs[p + 1] - 128) * 64 + (bs[p + 2] - 128), 3>>
        ELSE IF ~(has(3) /\ IsCont(bs[p + 3])) THEN <<ReplacementChar, 3>>
        ELSE <<(b0 - 240) * 262144 + (bs[p + 1] - 128) * 4096
               + (bs[p + 2] - 128) * 64 + (bs[p + 3] - 128), 4>>

RECURSIVE DecodeFrom(_, _)
DecodeFrom(bs, p) ==
    IF p > Len(bs) THEN <<>>
    ELSE LET r == DecodeAt(bs, p) IN <<r[1]>> \o DecodeFrom(bs, p + r[2])

utf8_decode(bs) == DecodeFrom(bs, 1)

(***************************************************************************)
(* The pre-tokenizer: re.findall(self.pat, text) with the pattern          *)
(*   's|'t|'re|'ve|'m|'ll|'d| ?\p{L}+| ?\p{N}+| ?[^\s\p{L}\p{N}]+           *)
(*   |\s+(?!\S)|\s+                                                        *)
(* over the code points below 256.                                         *)
(***************************************************************************)
IsSpace(c) == c \in (9..13) \cup {32, 133, 160}

IsLetter(c) ==
    c \in (65..90) \cup (97..122) \cup {170, 181, 186} \cup (192..214)
          \cup (216..246) \cup (248..255)

IsNumber(c) == c \in (48..57) \cup {178, 179, 185} \cup (188..190)

Class(c) ==
    IF IsSpace(c) THEN "S"
    ELSE IF IsLetter(c) THEN "L"
    ELSE IF IsNumber(c) THEN "N"
    ELSE "O"

\* Length of the longest run of characters of class cls from position p.
RECURSIVE RunLen(_, _, _)
RunLen(text, p, cls) ==
    IF p <= Len(text) /\ Class(text[p]) = cls
    THEN 1 + RunLen(text, p + 1, cls)
    ELSE 0

\* Length of the pattern's match at position p, 0 when it matches nothing
\* there: the first alternative that matches wins, each one greedy.
MatchLen(text, p) ==
    LET n == Len(text)
        at(k) == IF p + k <= n THEN text[p + k] ELSE -1
        contraction ==
            IF at(0) # 39 THEN 0
            ELSE IF at(1) = 115 \/ at(1) = 116 THEN 2
            ELSE IF at(1) = 114 /\ at(2) = 101 THEN 3
            ELSE IF at(1) = 118 /\ at(2) = 101 THEN 3
            ELSE IF at(1) = 109 THEN 2
            ELSE IF at(1) = 108 /\ at(2) = 108 THEN 3
            ELSE IF at(1) = 100 THEN 2
            ELSE 0
        optrun(cls) ==
            IF at(0) = 32 /\ p + 1 <= n /\ Class(at(1)) = cls
            THEN 1 + RunLen(text, p + 1, cls)
            ELSE IF Class(at(0)) = cls THEN RunLen(text, p, cls)
            ELSE 0
        ws == RunLen(text, p, "S")
        wsLook ==
            IF ws = 0 THEN 0
            ELSE IF p + ws > n THEN ws
            ELSE IF ws >= 2 THEN ws - 1
            ELSE 0
    IN  IF contraction > 0 THEN contraction
        ELSE IF optrun("L") > 0 THEN optrun("L")
        ELSE IF optrun("N") > 0 THEN optrun("N")
        ELSE IF optrun("O") > 0 THEN optrun("O")
        ELSE IF wsLook > 0 THEN wsLook
        ELSE ws

\* The matches from position p on, left to right; a position where the
\* pattern matches nothing is skipped.
RECURSIVE FindFrom(_, _)
FindFrom(text, p) ==
    IF p > Len(text) THEN <<>>
    ELSE LET m == MatchLen(text, p)
         IN  IF m = 0 THEN FindFrom(text, p + 1)
             ELSE <<SubSeq(text, p, p + m - 1)>> \o FindFrom(text, p + m)

findall(text) == FindFrom(text, 1)

(***************************************************************************)
(* src/bpe_tokeniser.py: the helpers.                                      *)
(***************************************************************************)
_build_vocab == [b \in 0..255 |-> <<b>>]

\* `for pair in zip(symbols, symbols[1:])` from position n on.
RECURSIVE CountPairs(_, _, _, _)
CountPairs(counts, symbols, n, freq) ==
    IF n >= Len(symbols) THEN counts
    ELSE LET pair == <<symbols[n], symbols[n + 1]>>
         IN  CountPairs(DictSet(counts, pair, DictGet(counts, pair, 0) + freq),
                        symbols, n + 1, freq)

RECURSIVE PairStatsFrom(_, _, _, _)
PairStatsFrom(counts, spl, wf, n) ==
    IF n > Len(wf) THEN counts
    ELSE PairStatsFrom(CountPairs(counts, DictGet(spl, wf[n][1], <<>>), 1, wf[n][2]),
                       spl, wf, n + 1)

_get_pair_stats(spl, wf) == PairStatsFrom(<<>>, spl, wf, 1)

_get_stats(ids) == CountPairs(<<>>, ids, 1, 1)

\* best_pair_of with a fault: the last of the most frequent keys, not the first.
best_pair_last(pair_stats) ==
    LET top(n) == \A m \in 1..Len(pair_stats) : pair_stats[m][2] <= pair_stats[n][2]
        last == CHOOSE n \in 1..Len(pair_stats) :
                    top(n) /\ \A m \in (n + 1)..Len(pair_stats) : ~top(m)
    IN  pair_stats[last][1]

\* max(pair_stats, key=pair_stats.get): the first key, in iteration order,
\* whose count no other key's count exceeds.
best_pair_of(pair_stats) ==
    LET top(n) == \A m \in 1..Len(pair_stats) : pair_stats[m][2] <= pair_stats[n][2]
        first == CHOOSE n \in 1..Len(pair_stats) :
                    top(n) /\ \A m \in 1..(n - 1) : ~top(m)
    IN  pair_stats[first][1]

\* in_range with a fault: the loop runs one iteration too many.
in_range_inclusive(i, n) == i <= n

\* `for i in range(num_merges)`: whether iteration i is in the range.
in_range(i, n) == i < n

\* new_token_id_of with a fault: the first minted id is 255.
new_token_id_from_255(i) == 255 + i

\* new_token_id = 256 + i
new_token_id_of(i) == 256 + i

\* vocab_entry with a fault: the two spans the wrong way round.
vocab_entry_swapped(v, pair) == v[pair[2]] \o v[pair[1]]

\* self.vocab[best_pair[0]] + self.vocab[best_pair[1]]
vocab_entry(v, pair) == v[pair[1]] \o v[pair[2]]

RECURSIVE MergeSplit(_, _, _, _)
MergeSplit(split, pair, new_token_id, n) ==
    IF n > Len(split) THEN <<>>
    ELSE IF n < Len(split) /\ <<split[n], split[n + 1]>> = pair
    THEN <<new_token_id>> \o MergeSplit(split, pair, new_token_id, n + 2)
    ELSE <<split[n]>> \o MergeSplit(split, pair, new_token_id, n + 1)

\* _merge_pair_in_splits with a fault: only the pair's first id is compared.
RECURSIVE MergeSplitFirstOnly(_, _, _, _)
MergeSplitFirstOnly(split, pair, new_token_id, n) ==
    IF n > Len(split) THEN <<>>
    ELSE IF n < Len(split) /\ split[n] = pair[1]
    THEN <<new_token_id>> \o MergeSplitFirstOnly(split, pair, new_token_id, n + 2)
    ELSE <<split[n]>> \o MergeSplitFirstOnly(split, pair, new_token_id, n + 1)

merge_in_splits_first_only(spl, pair, new_token_id) ==
    [n \in 1..Len(spl) |->
        <<spl[n][1], MergeSplitFirstOnly(spl[n][2], pair, new_token_id, 1)>>]

_merge_pair_in_splits(spl, pair, new_token_id) ==
    [n \in 1..Len(spl) |-> <<spl[n][1], MergeSplit(spl[n][2], pair, new_token_id, 1)>>]

RECURSIVE MergeIds(_, _, _, _)
MergeIds(ids, pair, idx, n) ==
    IF n > Len(ids) THEN <<>>
    ELSE IF n < Len(ids) /\ ids[n] = pair[1] /\ ids[n + 1] = pair[2]
    THEN <<idx>> \o MergeIds(ids, pair, idx, n + 2)
    ELSE <<ids[n]>> \o MergeIds(ids, pair, idx, n + 1)

\* _merge_pair with a fault: after a merge the position advances by one, not two.
RECURSIVE MergeIdsByOne(_, _, _, _)
MergeIdsByOne(ids, pair, idx, n) ==
    IF n > Len(ids) THEN <<>>
    ELSE IF n < Len(ids) /\ ids[n] = pair[1] /\ ids[n + 1] = pair[2]
    THEN <<idx>> \o MergeIdsByOne(ids, pair, idx, n + 1)
    ELSE <<ids[n]>> \o MergeIdsByOne(ids, pair, idx, n + 1)

merge_pair_by_one(ids, pair, idx) == MergeIdsByOne(ids, pair, idx, 1)

_merge_pair(ids, pair, idx) == MergeIds(ids, pair, idx, 1)

\* float("inf"), the rank of a pair that is no key of merges.
Inf == -1

RankLt(x, y) == x # Inf /\ (y = Inf \/ x < y)

\* pair_to_merge_of with a fault: the most frequent pair of the input.
pair_most_frequent(stats, m) == best_pair_of(stats)

\* min(stats, key=lambda p: self.merges.get(p, float("inf"))): the first key
\* of stats, in iteration order, that no other key's rank is below.
pair_to_merge_of(stats, m) ==
    LET rank(n) == DictGet(m, stats[n][1], Inf)
        low(n) == \A k \in 1..Len(stats) : ~RankLt(rank(k), rank(n))
        first == CHOOSE n \in 1..Len(stats) : low(n) /\ \A k \in 1..(n - 1) : ~low(k)
    IN  stats[first][1]

\* The word frequency table of train: one entry per distinct chunk, in the
\* order of first occurrence.
RECURSIVE CountWords(_, _, _)
CountWords(wf, chunks, n) ==
    IF n > Len(chunks) THEN wf
    ELSE LET word == utf8_encode(chunks[n])
         IN  CountWords(DictSet(wf, word, DictGet(wf, word, 0) + 1), chunks, n + 1)

\* The while loop of encode on one chunk's tokens: <<tokens, steps>>, steps
\* the rewriting steps taken so far.
RECURSIVE EncodeChunk(_, _, _)
EncodeChunk(m, toks, steps) ==
    IF ~(Len(toks) > 1) THEN <<toks, steps>>
    ELSE LET stats == _get_stats(toks)
             pair_to_merge == pair_to_merge_of(stats, m)
         IN  IF ~DictHas(m, pair_to_merge) THEN <<toks, steps>>
             ELSE LET new_token_id == DictGet(m, pair_to_merge, Inf)
                      new == _merge_pair(toks, pair_to_merge, new_token_id)
                  IN  EncodeChunk(m, new,
                          Append(steps, [before |-> toks, pair |-> pair_to_merge,
                                         idx |-> new_token_id, after |-> new]))

\* encode(text): [ids, steps, chunks], the ids returned, the rewriting steps
\* of every chunk in order and the chunks of the pre-tokenizer.
RECURSIVE EncodeChunks(_, _, _, _, _)
EncodeChunks(m, chunks, n, output_ids, steps) ==
    IF n > Len(chunks)
    THEN [ids |-> output_ids, steps |-> steps, chunks |-> chunks]
    ELSE LET r == EncodeChunk(m, utf8_encode(chunks[n]), <<>>)
         IN  EncodeChunks(m, chunks, n + 1, output_ids \o r[1], steps \o r[2])

encode(m, text) == EncodeChunks(m, findall(text), 1, <<>>, <<>>)

\* decode with a fault: an id that is no key of vocab is skipped.
decode_skipping(v, ids) ==
    [err |-> "none",
     text |-> utf8_decode(Concat([n \in 1..Len(ids) |->
                 IF ids[n] \in DOMAIN v THEN v[ids[n]] ELSE <<>>]))]

\* decode(ids): [err, text]; a KeyError when an id is no key of vocab.
decode(v, ids) ==
    IF \E n \in 1..Len(ids) : ids[n] \notin DOMAIN v
    THEN [err |-> "KeyError", text |-> <<>>]
    ELSE [err |-> "none",
          text |-> utf8_decode(Concat([n \in 1..Len(ids) |-> v[ids[n]]]))]

(***************************************************************************)
(* src/tokeniser.py: the helpers of the stream Tokenizer.                  *)
(***************************************************************************)
stream_get_stats(ids) == CountPairs(<<>>, ids, 1, 1)

RECURSIVE StreamMergeIds(_, _, _, _)
StreamMergeIds(ids, pair, idx, n) ==
    IF n > Len(ids) THEN <<>>
    ELSE IF n < Len(ids) /\ ids[n] = pair[1] /\ ids[n + 1] = pair[2]
    THEN <<idx>> \o StreamMergeIds(ids, pair, idx, n + 2)
    ELSE <<ids[n]>> \o StreamMergeIds(ids, pair, idx, n + 1)

stream_merge_pair(ids, pair, idx) == StreamMergeIds(ids, pair, idx, 1)

\* The `while True` loop of encode: [ids, err, steps]; min() of the empty
\* stats raises ValueError.
RECURSIVE StreamEncodeLoop(_, _, _)
StreamEncodeLoop(m, toks, steps) ==
    LET stats == stream_get_stats(toks)
    IN  IF stats = <<>> THEN [ids |-> <<>>, err |-> "ValueError", steps |-> steps]
        ELSE LET pair_to_merge == pair_to_merge_of(stats, m)
             IN  IF DictGet(m, pair_to_merge, Inf) = Inf
                 THEN [ids |-> toks, err |-> "none", steps |-> steps]
                 ELSE LET new_token_id == DictGet(m, pair_to_merge, Inf)
                          new == stream_merge_pair(toks, pair_to_merge, new_token_id)
                      IN  StreamEncodeLoop(m, new,
                              Append(steps, [before |-> toks, pair |-> pair_to_merge,
                                             idx |-> new_token_id, after |-> new]))

stream_encode(m, text) == StreamEncodeLoop(m, utf8_encode(text), <<>>)

stream_decode(v, ids) ==
    IF \E n \in 1..Len(ids) : ids[n] \notin DOMAIN v
    THEN [err |-> "KeyError", text |-> <<>>]
    ELSE [err |-> "none",
          text |-> utf8_decode(Concat([n \in 1..Len(ids) |-> v[ids[n]]]))]

(***************************************************************************)
(* The inputs of the calls.                                                *)
(***************************************************************************)
SeqsUpTo(S, n) == UNION {[1..k -> S] : k \in 0..n}

\* "aaabdaaabac"
ExampleCorpus == <<97, 97, 97, 98, 100, 97, 97, 97, 98, 97, 99>>

\* d, e-acute, space
CorpusAlphabet == {100, 233, 32}

\* d, e-acute, apostrophe, space, newline, 1
TextAlphabet == {100, 233, 39, 32, 10, 49}

Corpora == SeqsUpTo(CorpusAlphabet, MaxCorpusLen) \cup {ExampleCorpus}

VocabSizes == {0, 256} \cup (257..(256 + MaxMerges))

Texts ==
    SeqsUpTo(CorpusAlphabet, MaxTextLen) \cup SeqsUpTo(TextAlphabet, MaxMixedLen)
        \cup {ExampleCorpus}

\* d, the two bytes of e-acute alone, minted ids, an id never minted
IdChoices == {100, 169, 195, 256, 99999}

IdLists == SeqsUpTo(IdChoices, MaxIdsLen)

NoRet ==
    [op |-> "none", text |-> <<>>, ids |-> <<>>, err |-> "none", steps |-> <<>>,
     chunks |-> <<>>, vocab_size |-> 0, iters |-> 0, exhausted |-> FALSE]

Ready == pc = "idle" /\ ret = NoRet

\* Tokenizer(): __init__ of either class.
Fresh ==
    /\ pc = "idle"
    /\ merges = <<>>
    /\ vocab = _build_vocab
    /\ text_chunks = <<>>
    /\ word_freqs = <<>>
    /\ splits = <<>>
    /\ tokens = <<>>
    /\ num_merges = 0
    /\ loop_i = 0
    /\ ret = NoRet
    /\ n_train = 0

\* train returns or raises: its locals are gone.
LeaveTrain ==
    /\ pc' = "idle"
    /\ text_chunks' = <<>>
    /\ word_freqs' = <<>>
    /\ splits' = <<>>
    /\ tokens' = <<>>
    /\ num_merges' = 0
    /\ loop_i' = 0

\* The caller takes what the last call returned or raised; the Tokenizer
\* object is ready for its next call.
Return ==
    /\ pc = "idle"
    /\ ret # NoRet
    /\ ret' = NoRet
    /\ UNCHANGED <<impl, pc, merges, vocab, text_chunks, word_freqs, splits, tokens,
                   num_merges, loop_i, n_train>>

(***************************************************************************)
(* src/bpe_tokeniser.py: the Tokenizer object and its calls.               *)
(***************************************************************************)
Init == impl = "bpe" /\ Fresh

\* train(text, vocab_size) up to its loop.
Train(text, vocab_size) ==
    /\ impl = "bpe"
    /\ Ready
    /\ n_train' = n_train + 1
    /\ ret' = [NoRet EXCEPT !.op = "train", !.vocab_size = vocab_size]
    /\ IF vocab_size <= 256
       THEN UNCHANGED <<pc, text_chunks, word_freqs, splits, num_merges, loop_i>>
       ELSE /\ pc' = "train"
            /\ text_chunks' = findall(text)
            /\ word_freqs' = CountWords(<<>>, text_chunks', 1)
            /\ splits' = [n \in 1..Len(word_freqs') |->
                             <<word_freqs'[n][1], word_freqs'[n][1]>>]
            /\ num_merges' = vocab_size - 256
            /\ loop_i' = 0
    /\ UNCHANGED <<impl, merges, vocab, tokens>>

\* An iteration of train's loop that selects a pair.
TrainIter ==
    /\ impl = "bpe"
    /\ pc = "train"
    /\ in_range(loop_i, num_merges)
    /\ LET pair_stats == _get_pair_stats(splits, word_freqs)
       IN  /\ pair_stats # <<>>
           /\ LET best_pair == best_pair_of(pair_stats)
                  new_token_id == new_token_id_of(loop_i)
              IN  /\ merges' = DictSet(merges, best_pair, new_token_id)
                  /\ IF best_pair[1] \in DOMAIN vocab /\ best_pair[2] \in DOMAIN vocab
                     THEN /\ splits' = _merge_pair_in_splits(splits, best_pair,
                                                            new_token_id)
                          /\ vocab' = [id \in DOMAIN vocab \cup {new_token_id} |->
                                          IF id = new_token_id
                                          THEN vocab_entry(vocab, best_pair)
                                          ELSE vocab[id]]
                          /\ loop_i' = loop_i + 1
                          /\ UNCHANGED <<pc, text_chunks, word_freqs, tokens,
                                         num_merges, ret>>
                     ELSE /\ LeaveTrain
                          /\ ret' = [ret EXCEPT !.err = "KeyError", !.iters = loop_i]
                          /\ UNCHANGED vocab
    /\ UNCHANGED <<impl, n_train>>

\* train leaves its loop: the range is used up, or no pair is left (break).
TrainReturn ==
    /\ impl = "bpe"
    /\ pc = "train"
    /\ ~in_range(loop_i, num_merges) \/ _get_pair_stats(splits, word_freqs) = <<>>
    /\ LeaveTrain
    /\ ret' = [ret EXCEPT !.iters = loop_i,
                          !.exhausted = in_range(loop_i, num_merges)]
    /\ UNCHANGED <<impl, merges, vocab, n_train>>

Encode(text) ==
    /\ impl = "bpe"
    /\ Ready
    /\ LET r == encode(merges, text)
       IN  ret' = [NoRet EXCEPT !.op = "encode", !.text = text, !.ids = r.ids,
                                !.steps = r.steps, !.chunks = r.chunks]
    /\ UNCHANGED <<impl, pc, merges, vocab, text_chunks, word_freqs, splits, tokens,
                   num_merges, loop_i, n_train>>

Decode(ids) ==
    /\ impl = "bpe"
    /\ Ready
    /\ LET r == decode(vocab, ids)
       IN  ret' = [NoRet EXCEPT !.op = "decode", !.ids = ids, !.err = r.err,
                                !.text = r.text]
    /\ UNCHANGED <<impl, pc, merges, vocab, text_chunks, word_freqs, splits, tokens,
                   num_merges, loop_i, n_train>>

\* A Tokenizer that is trained at most once.
Next ==
    \/ Ready /\ n_train = 0 /\ \E text \in Corpora, vocab_size \in VocabSizes :
          Train(text, vocab_size)
    \/ TrainIter
    \/ TrainReturn
    \/ Ready /\ \E text \in Texts : Encode(text)
    \/ Ready /\ \E ids \in IdLists : Decode(ids)
    \/ Return

Spec == Init /\ [][Next]_vars

\* A Tokenizer on which train is called up to MaxTrainCalls times.
NextRetrain ==
    \/ Ready /\ n_train < MaxTrainCalls
          /\ \E text \in Corpora, vocab_size \in VocabSizes : Train(text, vocab_size)
    \/ TrainIter
    \/ TrainReturn
    \/ Return

SpecRetrain == Init /\ [][NextRetrain]_vars

(***************************************************************************)
(* src/tokeniser.py: the stream Tokenizer object and its calls.            *)
(***************************************************************************)
StreamTrain(text, vocab_size) ==
    /\ impl = "stream"
    /\ Ready
    /\ n_train' = n_train + 1
    /\ ret' = [NoRet EXCEPT !.op = "train", !.vocab_size = vocab_size]
    /\ IF vocab_size <= 256
       THEN UNCHANGED <<pc, tokens, num_merges, loop_i>>
       ELSE /\ pc' = "train"
            /\ num_merges' = vocab_size - 256
            /\ tokens' = utf8_encode(text)
            /\ loop_i' = 0
    /\ UNCHANGED <<impl, merges, vocab, text_chunks, word_freqs, splits>>

StreamTrainIter ==
    /\ impl = "stream"
    /\ pc = "train"
    /\ loop_i < num_merges
    /\ LET stats == stream_get_stats(tokens)
       IN  /\ stats # <<>>
           /\ LET pair == best_pair_of(stats)
                  new_token_id == 256 + loop_i
              IN  /\ merges' = DictSet(merges, pair, new_token_id)
                  /\ IF pair[1] \in DOMAIN vocab /\ pair[2] \in DOMAIN vocab
                     THEN /\ tokens' = stream_merge_pair(tokens, pair, new_token_id)
                          /\ vocab' = [id \in DOMAIN vocab \cup {new_token_id} |->
                                          IF id = new_token_id
                                          THEN vocab[pair[1]] \o vocab[pair[2]]
                                          ELSE vocab[id]]
                          /\ loop_i' = loop_i + 1
                          /\ UNCHANGED <<pc, text_chunks, word_freqs, splits,
                                         num_merges, ret>>
                     ELSE /\ LeaveTrain
                          /\ ret' = [ret EXCEPT !.err = "KeyError", !.iters = loop_i]
                          /\ UNCHANGED vocab
    /\ UNCHANGED <<impl, n_train>>

StreamTrainReturn ==
    /\ impl = "stream"
    /\ pc = "train"
    /\ loop_i >= num_merges \/ stream_get_stats(tokens) = <<>>
    /\ LeaveTrain
    /\ ret' = [ret EXCEPT !.iters = loop_i, !.exhausted = (loop_i < num_merges)]
    /\ UNCHANGED <<impl, merges, vocab, n_train>>

StreamEncode(text) ==
    /\ impl = "stream"
    /\ Ready
    /\ LET r == stream_encode(merges, text)
       IN  ret' = [NoRet EXCEPT !.op = "encode", !.text = text, !.ids = r.ids,
                                !.err = r.err, !.steps = r.steps]
    /\ UNCHANGED <<impl, pc, merges, vocab, text_chunks, word_freqs, splits, tokens,
                   num_merges, loop_i, n_train>>

StreamDecode(ids) ==
    /\ impl = "stream"
    /\ Ready
    /\ LET r == stream_decode(vocab, ids)
       IN  ret' = [NoRet EXCEPT !.op = "decode", !.ids = ids, !.err = r.err,
                                !.text = r.text]
    /\ UNCHANGED <<impl, pc, merges, vocab, text_chunks, word_freqs, splits, tokens,
                   num_merges, loop_i, n_train>>

NextStream ==
    \/ Ready /\ n_train = 0 /\ \E text \in Corpora, vocab_size \in VocabSizes :
          StreamTrain(text, vocab_size)
    \/ StreamTrainIter
    \/ StreamTrainReturn
    \/ Ready /\ \E text \in Texts : StreamEncode(text)
    \/ Ready /\ \E ids \in IdLists : StreamDecode(ids)

\* Either Tokenizer, trained at most once.
InitBoth == impl \in {"bpe", "stream"} /\ Fresh

NextBoth == Next \/ NextStream

SpecBoth == InitBoth /\ [][NextBoth]_vars

(***************************************************************************)
(* Definitions the properties below are stated with.                       *)
(***************************************************************************)
Max(a, b) == IF a >= b THEN a ELSE b

BytesOf(v, ids) == Concat([n \in 1..Len(ids) |-> v[ids[n]]])

AdjacentPairs(ids) == {<<ids[k], ids[k + 1]>> : k \in 1..(Len(ids) - 1)}

\* The id lists train counts pairs in, each with its weight: the splits of
\* the words in the order of word_freqs, or the one token stream.
ScanWords ==
    IF impl = "bpe"
    THEN [n \in 1..Len(word_freqs) |->
             <<DictGet(splits, word_freqs[n][1], <<>>), word_freqs[n][2]>>]
    ELSE <<<<tokens, 1>>>>

Occurrences(w, p) ==
    Cardinality({k \in 1..(Len(w) - 1) : w[k] = p[1] /\ w[k + 1] = p[2]})

RECURSIVE Frequency(_, _, _)
Frequency(ws, p, n) ==
    IF n > Len(ws) THEN 0
    ELSE ws[n][2] * Occurrences(ws[n][1], p) + Frequency(ws, p, n + 1)

PairsOf(ws) == UNION {AdjacentPairs(ws[n][1]) : n \in 1..Len(ws)}

MostFrequent(ws) ==
    {p \in PairsOf(ws) : \A q \in PairsOf(ws) : Frequency(ws, q, 1) <= Frequency(ws, p, 1)}

\* Where the scan of ws meets p first: word n, position k, as n * 1000 + k.
FirstMet(ws, p) ==
    LET hit == UNION {{n * 1000 + k : k \in {j \in 1..(Len(ws[n][1]) - 1) :
                                   ws[n][1][j] = p[1] /\ ws[n][1][j + 1] = p[2]}} :
                      n \in 1..Len(ws)}
    IN  CHOOSE x \in hit : \A y \in hit : x <= y

LexLe(p, q) == p[1] < q[1] \/ (p[1] = q[1] /\ p[2] <= q[2])

\* A step of train's loop that records a rule, and the pair it records.
RecordsRule == pc = "train" /\ Len(merges') = Len(merges) + 1

Recorded == merges'[Len(merges')][1]

\* A merge table that is injective and whose k-th rule has id 256 + k.
MergeTableOk(m) ==
    /\ \A j, k \in 1..Len(m) : m[j][2] = m[k][2] => j = k
    /\ \A k \in 1..Len(m) : m[k][2] = 256 + (k - 1)

\* The pair statistics of the first iteration, from the words as first split.
FirstWords == [n \in 1..Len(word_freqs) |-> <<word_freqs[n][1], word_freqs[n][2]>>]

(***************************************************************************)
(* C1. Round trip: on a Tokenizer that is fresh or was trained once,       *)
(* decode(encode(text)) returns text, and the byte spans of the ids that   *)
(* encode returns, concatenated, are the UTF-8 bytes of text.              *)
(***************************************************************************)
C1_RoundTrip ==
    (impl = "bpe" /\ ret.op = "encode") =>
        /\ \A n \in 1..Len(ret.ids) : ret.ids[n] \in DOMAIN vocab
        /\ BytesOf(vocab, ret.ids) = utf8_encode(ret.text)
        /\ decode(vocab, ret.ids) = [err |-> "none", text |-> ret.text]

\* A trained Tokenizer has encoded a text with a two-byte character into
\* ids some of which were minted by a merge of merged ids.
C1_Witness ==
    /\ impl = "bpe" /\ ret.op = "encode" /\ n_train = 1
    /\ \E n \in 1..Len(ret.text) : ret.text[n] = 233
    /\ \E n \in 1..Len(ret.ids) : ret.ids[n] >= 257
    /\ Len(ret.ids) >= 2

(***************************************************************************)
(* C4. Concatenation invariant: in every state of a training of a fresh    *)
(* Tokenizer (after each iteration, and after train), every rule           *)
(* (a, b) -> v of merges has vocab[v] = vocab[a] followed by vocab[b], and *)
(* vocab[id] is the single byte id for every id in 0..255.                 *)
(***************************************************************************)
C4_Concatenation ==
    /\ \A k \in 1..Len(merges) :
          LET a == merges[k][1][1]
              b == merges[k][1][2]
              v == merges[k][2]
          IN  /\ {a, b, v} \subseteq DOMAIN vocab
              /\ vocab[v] = vocab[a] \o vocab[b]
    /\ \A id \in 0..255 : id \in DOMAIN vocab /\ vocab[id] = <<id>>

\* Inside the loop, with a rule whose pair holds a minted id and whose two
\* spans differ.
C4_Witness ==
    /\ pc = "train" /\ Len(merges) >= 2
    /\ \E k \in 1..Len(merges) :
          /\ merges[k][1][1] >= 256 \/ merges[k][1][2] >= 256
          /\ vocab[merges[k][1][1]] # vocab[merges[k][1][2]]

(***************************************************************************)
(* C7. Vocabulary growth bound: train on a fresh Tokenizer returns without *)
(* an error after at most vocab_size - 256 iterations; len(merges) is the  *)
(* number of iterations that selected a pair: vocab_size - 256 unless no   *)
(* pair was left earlier (then fewer), 0 when vocab_size <= 256; and       *)
(* len(merges) <= max(0, vocab_size - 256), len(vocab) = 256 + len(merges). *)
(***************************************************************************)
C7_GrowthBound ==
    /\ (impl = "bpe" /\ pc = "train") =>
          /\ loop_i <= num_merges
          /\ Len(merges) = loop_i
          /\ Cardinality(DOMAIN vocab) = 256 + Len(merges)
    /\ (impl = "bpe" /\ pc = "idle" /\ ret.op = "train") =>
          /\ ret.err = "none"
          /\ Len(merges) = ret.iters
          /\ ret.vocab_size <= 256 => ret.iters = 0
          /\ IF ret.exhausted THEN ret.iters < ret.vocab_size - 256
             ELSE ret.iters = Max(0, ret.vocab_size - 256)
          /\ Len(merges) <= Max(0, ret.vocab_size - 256)
          /\ Cardinality(DOMAIN vocab) = 256 + Len(merges)

\* train has returned early: a pair was selected, and then none was left.
C7_Witness ==
    /\ impl = "bpe" /\ pc = "idle" /\ ret.op = "train"
    /\ ret.exhausted /\ ret.iters >= 1 /\ Len(merges) = ret.iters

(***************************************************************************)
(* C10. Monotonic compression: on a Tokenizer that is fresh or was trained *)
(* once, encode(text) returns at most as many ids as text has UTF-8 bytes, *)
(* every rewriting step of encode shortens the chunk's id list, and the    *)
(* chunks of the pre-tokenizer are non-empty and, in order, make up text   *)
(* (no gap, no overlap).                                                   *)
(***************************************************************************)
C10_Compression ==
    (impl = "bpe" /\ ret.op = "encode") =>
        /\ Len(ret.ids) <= Len(utf8_encode(ret.text))
        /\ \A k \in 1..Len(ret.steps) :
              Len(ret.steps[k].after) < Len(ret.steps[k].before)
        /\ Concat(ret.chunks) = ret.text
        /\ \A k \in 1..Len(ret.chunks) : ret.chunks[k] # <<>>

\* Several chunks, several rewriting steps, fewer ids than bytes.
C10_Witness ==
    /\ impl = "bpe" /\ ret.op = "encode"
    /\ Len(ret.chunks) >= 2 /\ Len(ret.steps) >= 2
    /\ Len(ret.ids) < Len(utf8_encode(ret.text))

(***************************************************************************)
(* C2. Tie-break in train (as claimed): in every iteration the pair chosen *)
(* is the lexicographically smallest, by (first id, second id), of the     *)
(* pairs of maximum weighted frequency.                                    *)
(***************************************************************************)
C2_LexSmallest ==
    [][RecordsRule => \A q \in MostFrequent(ScanWords) : LexLe(Recorded, q)]_vars

(***************************************************************************)
(* C2, as the code has it: in every iteration the pair chosen is, of the   *)
(* pairs of maximum weighted frequency, the one the scan that builds the   *)
(* pair statistics meets first (the distinct chunks in the order of their  *)
(* first occurrence in the corpus, each from left to right; in             *)
(* tokeniser.py the token stream from left to right).                      *)
(***************************************************************************)
C2_FirstMet ==
    [][RecordsRule =>
          /\ Recorded \in MostFrequent(ScanWords)
          /\ \A q \in MostFrequent(ScanWords) :
                FirstMet(ScanWords, Recorded) <= FirstMet(ScanWords, q)]_vars

\* The first iteration has chosen among several most frequent pairs, and
\* its choice is not the lexicographically smallest of them.
C2_Witness ==
    /\ impl = "bpe" /\ pc = "train" /\ loop_i = 1 /\ Len(merges) = 1
    /\ merges[1][1] \in MostFrequent(FirstWords)
    /\ \E q \in MostFrequent(FirstWords) : ~LexLe(merges[1][1], q)

(***************************************************************************)
(* C3. Merge Rule Table invariant over any sequence of train calls on one  *)
(* Tokenizer: the table stays injective, the rule recorded k-th has id     *)
(* 256 + k (k from 0), both ids of a pair are keys of vocab when the rule  *)
(* is recorded, and no entry of merges or vocab is changed once written.   *)
(***************************************************************************)
C3_MergeTable ==
    [][/\ MergeTableOk(merges')
       /\ Len(merges') >= Len(merges)
       /\ \A k \in 1..Len(merges) : merges'[k] = merges[k]
       /\ \A id \in DOMAIN vocab : id \in DOMAIN vocab' /\ vocab'[id] = vocab[id]
       /\ \A k \in (Len(merges) + 1)..Len(merges') :
             merges'[k][1][1] \in DOMAIN vocab /\ merges'[k][1][2] \in DOMAIN vocab]_vars

(***************************************************************************)
(* C5. Rank consistency of encode: the pair merged at a rewriting step is  *)
(* a key of merges present in the chunk's id list, it is replaced by its   *)
(* merge id, and no pair present in that list has a smaller merge id.      *)
(***************************************************************************)
C5_RankConsistency ==
    ret.op = "encode" =>
        \A k \in 1..Len(ret.steps) :
            LET s == ret.steps[k]
            IN  /\ s.pair \in AdjacentPairs(s.before)
                /\ DictHas(merges, s.pair)
                /\ \E n \in 1..Len(merges) : merges[n] = <<s.pair, s.idx>>
                /\ \A q \in AdjacentPairs(s.before), n \in 1..Len(merges) :
                      merges[n][1] = q => s.idx <= merges[n][2]

\* A step of encode had two different pairs present that are keys of merges.
C5_Witness ==
    /\ ret.op = "encode"
    /\ \E k \in 1..Len(ret.steps) :
          \E p, q \in AdjacentPairs(ret.steps[k].before) :
              p # q /\ DictHas(merges, p) /\ DictHas(merges, q)

(***************************************************************************)
(* C6. Encode reproduces training: while train runs on a fresh Tokenizer,  *)
(* and so when its loop ends, encode of every chunk of the corpus gives    *)
(* the id list the chunk has in the Split Table; and for the corpus        *)
(* "aaabdaaabac" with target size 258 the first rule is (97, 97) -> 256.   *)
(***************************************************************************)
C6_EncodeReproducesTraining ==
    /\ (impl = "bpe" /\ pc = "train") =>
          \A n \in 1..Len(text_chunks) :
              encode(merges, text_chunks[n]).ids
                  = DictGet(splits, utf8_encode(text_chunks[n]), <<>>)
    /\ (impl = "bpe" /\ pc = "train" /\ text_chunks = <<ExampleCorpus>>
            /\ num_merges = 2 /\ loop_i >= 1) =>
          merges[1] = <<<<97, 97>>, 256>>

\* The loop of train has ended with several chunks, one of them rewritten
\* to an id minted from a minted id.
C6_Witness ==
    /\ impl = "bpe" /\ pc = "train"
    /\ ~in_range(loop_i, num_merges) \/ _get_pair_stats(splits, word_freqs) = <<>>
    /\ Len(text_chunks) >= 2
    /\ \E n \in 1..Len(splits) : \E k \in 1..Len(splits[n][2]) : splits[n][2][k] >= 257

(***************************************************************************)
(* C8. Encode returns on every input: with any merge table, encode of      *)
(* either Tokenizer raises nothing; with an empty merge table it returns   *)
(* the UTF-8 byte values, and the stream-mode encode returns ids of which  *)
(* fewer than two remain or no adjacent pair is a key of merges.           *)
(***************************************************************************)
C8_EncodeReturns ==
    ret.op = "encode" =>
        /\ ret.err = "none"
        /\ merges = <<>> => ret.ids = utf8_encode(ret.text)
        /\ impl = "stream" =>
              \/ Len(ret.ids) < 2
              \/ \A q \in AdjacentPairs(ret.ids) : ~DictHas(merges, q)

(***************************************************************************)
(* C9. Decode error policy: decode(ids) ends in a KeyError exactly when    *)
(* some id of ids is no key of vocab, then returning no text; otherwise it *)
(* returns a text and raises nothing; and it leaves merges and vocab as    *)
(* they were.                                                              *)
(***************************************************************************)
C9_DecodePolicy ==
    [][(ret'.op = "decode" /\ ret.op # "decode") =>
          /\ IF \E n \in 1..Len(ret'.ids) : ret'.ids[n] \notin DOMAIN vocab
             THEN ret'.err = "KeyError" /\ ret'.text = <<>>
             ELSE ret'.err = "none"
          /\ merges' = merges
          /\ vocab' = vocab]_vars

\* decode has raised on a list that holds a minted id and an unknown id.
C9_Witness ==
    /\ ret.op = "decode" /\ ret.err = "KeyError"
    /\ \E n \in 1..Len(ret.ids) : ret.ids[n] >= 256 /\ ret.ids[n] \in DOMAIN vocab
    /\ \E n \in 1..Len(ret.ids) : ret.ids[n] \notin DOMAIN vocab

====
